---- MODULE Spec2Model ----
(***************************************************************************)
(* A model of the rgo lexer (src/lexer/mod.rs): the Lexer cursor (pos,      *)
(* src, current_char), its Iterator::next step and the tokenize driver.     *)
(*                                                                         *)
(* The source text is a sequence of bytes.  A one-byte character is the     *)
(* byte itself; a multi-byte character is its lead byte followed by Cont    *)
(* bytes, so that a byte offset can sit inside a character, as it can in    *)
(* the Rust string the lexer indexes.                                       *)
(***************************************************************************)
EXTENDS Integers, Sequences, FiniteSets, TLC

\* ------------------------------------------------------------------ bounds

\* Longest source text (in characters) of the general specification.
MaxLen == 4
\* Longest source text of the operator specification.
OpMaxLen == 3
\* Longest source text of the identifier specification.
IdMaxLen == 4
\* Longest source text of the trivia specification.
TrivMaxLen == 5
\* Longest source text of the mixed-width specification.
UniMaxLen == 5
\* Longest source text of the delimiter specification.
DelimMaxLen == 3
\* Longest source text of the number specification.
NumMaxLen == 4
\* Longest lexeme on either side of the separator (round-trip specification).
PairMaxLen == 2

\* ------------------------------------------------------------- characters

\* Option<char>::None
None == "<None>"
\* A continuation byte of a multi-byte character.
Cont == "<cont>"
\* U+00E9 (alphabetic, two bytes), U+00B2 (numeric, two bytes),
\* U+000B (vertical tab, one byte).
EAcute == "U+00E9"
SuperTwo == "U+00B2"
VT == "U+000B"

Letters ==
    {"a", "b", "c", "d", "e", "f", "g", "h", "i", "k", "l", "m", "n", "o",
     "p", "r", "s", "t", "u", "v", "w", "x", "y", "F", "X"}

Digits == {"0", "1", "2", "3", "9"}

\* The encoded width of a character in bytes (str is UTF-8).
len_utf8(c) == IF c \in {EAcute, SuperTwo} THEN 2 ELSE 1

\* char::is_whitespace: the Unicode White_Space property.
is_whitespace(c) == c \in {" ", "\t", "\n", "\r", "\f", VT}

\* char::is_digit(10)
is_digit(c) == c \in Digits

\* char::is_alphabetic
is_alphabetic(c) == c \in Letters \cup {EAcute}

\* char::is_numeric
is_numeric(c) == c \in Digits \cup {SuperTwo}

can_start_identifier(c) == is_alphabetic(c)

can_continue_identifier(c) == is_alphabetic(c) \/ is_numeric(c)

\* ----------------------------------------------------------------- strings

RECURSIVE Encode(_)
\* The UTF-8 bytes of a sequence of characters.
Encode(cs) ==
    IF cs = <<>> THEN <<>>
    ELSE (IF len_utf8(Head(cs)) = 2 THEN <<Head(cs), Cont>> ELSE <<Head(cs)>>)
         \o Encode(Tail(cs))

\* All character sequences over alphabet A of length 0..n.
Texts(A, n) == UNION {[1..k -> A] : k \in 0..n}

\* str::is_char_boundary: byte is 0-based; the end of the string is a boundary.
is_char_boundary(s, byte) ==
    \/ byte = Len(s)
    \/ byte < Len(s) /\ s[byte + 1] # Cont

\* The panics of the program.
NoPanic == ""
BoundaryPanic == "byte index is not a char boundary"
UnexpectedPanic == "unexpected start of token"

\* char_at(s, byte): s[byte..].chars().next().unwrap(); slicing inside a
\* character panics.  Called with byte < s.len() only.
char_at(s, byte) == s[byte + 1]

char_at_panics(s, byte) == ~is_char_boundary(s, byte)

\* The slice taken from the start of the source text: &src[..end].
slice_from_zero(s, start, end) == SubSeq(s, 1, end)

\* &src[start..end]
slice(s, start, end) == SubSeq(s, start + 1, end)

slice_panics(s, start, end) ==
    \/ start > end
    \/ end > Len(s)
    \/ ~is_char_boundary(s, start)
    \/ ~is_char_boundary(s, end)

\* ------------------------------------------------------------------ tokens

Tok(name) == [tok |-> name, arg |-> <<>>]
OpenDelim(d) == [tok |-> "OpenDelim", arg |-> <<d>>]
CloseDelim(d) == [tok |-> "CloseDelim", arg |-> <<d>>]
Keyword(k) == [tok |-> "Keyword", arg |-> <<k>>]
Ident(text) == [tok |-> "Ident", arg |-> text]
Integer(text) == [tok |-> "Integer", arg |-> text]
Str(text) == [tok |-> "Str", arg |-> text]
Whitespace == Tok("Whitespace")

\* --------------------------------------------------------------- the cursor

\* Lexer::new: the cursor on the first character of s.
new(s) ==
    [pos |-> 0,
     cur |-> IF Len(s) > 0 THEN s[1] ELSE None,
     panic |-> NoPanic]

\* Lexer::bump: one byte forward, whatever the width of the character.
bump(s, l) ==
    IF l.panic # NoPanic THEN l
    ELSE LET p == l.pos + 1 IN
         IF p < Len(s)
         THEN IF char_at_panics(s, p)
              THEN [pos |-> p, cur |-> l.cur, panic |-> BoundaryPanic]
              ELSE [pos |-> p, cur |-> char_at(s, p), panic |-> NoPanic]
         ELSE [pos |-> p, cur |-> None, panic |-> NoPanic]

\* What a call that panics yields in place of a character.
Unwind == "<unwind>"

\* Lexer::next_char: the character one byte ahead, None past the end.
next_char(s, l) ==
    LET next_pos == l.pos + 1 IN
    IF next_pos < Len(s)
    THEN IF char_at_panics(s, next_pos) THEN Unwind ELSE char_at(s, next_pos)
    ELSE None

\* The cursor l after a panic for the given reason.
Panicked(l, why) == [l EXCEPT !.panic = why]

\* ------------------------------------------------------- Lexer::scan_number

RECURSIVE scan_digits_numeric(_, _)
\* The loop of scan_number with char::is_numeric for the digit test.
scan_digits_numeric(s, l) ==
    IF l.panic # NoPanic \/ l.cur = None THEN l
    ELSE IF is_numeric(l.cur) THEN scan_digits_numeric(s, bump(s, l))
    ELSE l

RECURSIVE scan_digits(_, _)
\* The loop of scan_number: bump while the current character is a digit.
scan_digits(s, l) ==
    IF l.panic # NoPanic \/ l.cur = None THEN l
    ELSE IF is_digit(l.cur) THEN scan_digits(s, bump(s, l))
    ELSE l

\* Lexer::scan_number: the run of decimal digits from the cursor.
scan_number(s, l) ==
    LET start == l.pos
        e == scan_digits(s, l) IN
    IF e.panic # NoPanic THEN [l |-> e, tok |-> Integer(<<>>)]
    ELSE IF slice_panics(s, start, e.pos)
    THEN [l |-> Panicked(e, BoundaryPanic), tok |-> Integer(<<>>)]
    ELSE [l |-> e, tok |-> Integer(slice(s, start, e.pos))]

\* ------------------------------------------------- Lexer::next, the trivia

RECURSIVE comment_body(_, _)
\* Skip the body of a general comment: up to a "*/" or the end of input.
comment_body(s, l) ==
    IF l.panic # NoPanic \/ l.cur = None THEN l
    ELSE IF l.cur = "*" /\ next_char(s, l) = Unwind
    THEN Panicked(l, BoundaryPanic)
    ELSE IF l.cur = "*" /\ next_char(s, l) = "/" THEN l
    ELSE comment_body(s, bump(s, l))

\* A general comment: skip the opening, the body and, unconditionally, two
\* more characters for the closing.
general_comment(s, l) ==
    bump(s, bump(s, comment_body(s, bump(s, bump(s, l)))))

RECURSIVE line_comment(_, _)
\* Skip a line comment: up to, not including, the line break.
line_comment(s, l) ==
    IF l.panic # NoPanic \/ l.cur = None THEN l
    ELSE IF l.cur = "\n" THEN l
    ELSE line_comment(s, bump(s, l))

\* The flag set by any whitespace character, not by the line break alone.
is_line_break_any_space(c) == is_whitespace(c)

\* The test that sets contains_newline.
is_line_break(c) == c = "\n"

RECURSIVE skip_trivia(_, _, _)
\* The whitespace and comment loop of next; nl is contains_newline so far.
skip_trivia(s, l, nl) ==
    IF l.panic # NoPanic \/ l.cur = None
    THEN [l |-> l, contains_newline |-> nl]
    ELSE LET c == l.cur
             nl2 == nl \/ is_line_break(c) IN
         IF c = "/" /\ next_char(s, l) = Unwind
         THEN [l |-> Panicked(l, BoundaryPanic), contains_newline |-> nl2]
         ELSE IF c = "/" /\ next_char(s, l) = "*"
         THEN skip_trivia(s, general_comment(s, l), nl2)
         ELSE IF c = "/" /\ next_char(s, l) = "/"
         THEN skip_trivia(s, line_comment(s, l), nl2)
         ELSE IF is_whitespace(c)
         THEN skip_trivia(s, bump(s, l), nl2)
         ELSE [l |-> l, contains_newline |-> nl2]

\* ---------------------------------------------- Lexer::next, the dispatch

\* What an arm of the match yields: the cursor it leaves and its token.
Yield(l, tok) == [l |-> l, tok |-> tok]

\* A single-character arm that consumes the character after it as well.
arm_single_two_bumps(s, l, tok) == Yield(bump(s, bump(s, l)), tok)

\* The single-character arms: bump, then the token.
arm_single(s, l, tok) == Yield(bump(s, l), tok)

\* '.': "..." is Ellipsis, anything else Dot.
arm_dot(s, l) ==
    LET a == bump(s, l) IN
    IF a.panic = NoPanic /\ a.cur = "." /\ next_char(s, a) = Unwind
    THEN Yield(Panicked(a, BoundaryPanic), Tok("Dot"))
    ELSE IF a.panic = NoPanic /\ a.cur = "." /\ next_char(s, a) = "."
    THEN Yield(bump(s, bump(s, a)), Tok("Ellipsis"))
    ELSE Yield(a, Tok("Dot"))

\* ':'
arm_colon(s, l) ==
    LET a == bump(s, l) IN
    IF a.cur = "=" THEN Yield(bump(s, a), Tok("ColonAssign"))
    ELSE Yield(a, Tok("Colon"))

\* '+'
arm_plus(s, l) ==
    LET a == bump(s, l) IN
    IF a.cur = "+" THEN Yield(bump(s, a), Tok("Increment"))
    ELSE IF a.cur = "=" THEN Yield(bump(s, a), Tok("PlusAssign"))
    ELSE Yield(a, Tok("Plus"))

\* '-'
arm_minus(s, l) ==
    LET a == bump(s, l) IN
    IF a.cur = "-" THEN Yield(bump(s, a), Tok("Decrement"))
    ELSE IF a.cur = "=" THEN Yield(bump(s, a), Tok("MinusAssign"))
    ELSE Yield(a, Tok("Minus"))

\* '*'
arm_star(s, l) ==
    LET a == bump(s, l) IN
    IF a.cur = "=" THEN Yield(bump(s, a), Tok("StarAssign"))
    ELSE Yield(a, Tok("Star"))

\* '/'
arm_slash(s, l) ==
    LET a == bump(s, l) IN
    IF a.cur = "=" THEN Yield(bump(s, a), Tok("SlashAssign"))
    ELSE Yield(a, Tok("Slash"))

\* '<'
arm_less(s, l) ==
    LET a == bump(s, l) IN
    IF a.cur = "<"
    THEN LET b == bump(s, a) IN
         IF b.cur = "=" THEN Yield(bump(s, b), Tok("LshiftAssign"))
         ELSE Yield(b, Tok("Lshift"))
    ELSE IF a.cur = "=" THEN Yield(bump(s, a), Tok("LessThanOrEqual"))
    ELSE IF a.cur = "-" THEN Yield(bump(s, a), Tok("ChanReceive"))
    ELSE Yield(a, Tok("LessThan"))

\* '>'
arm_greater(s, l) ==
    LET a == bump(s, l) IN
    IF a.cur = ">"
    THEN LET b == bump(s, a) IN
         IF b.cur = "=" THEN Yield(bump(s, b), Tok("RshiftAssign"))
         ELSE Yield(b, Tok("Rshift"))
    ELSE IF a.cur = "=" THEN Yield(bump(s, a), Tok("GreaterThanOrEqual"))
    ELSE Yield(a, Tok("GreaterThan"))

\* '|'
arm_pipe(s, l) ==
    LET a == bump(s, l) IN
    IF a.cur = "|" THEN Yield(bump(s, a), Tok("PipePipe"))
    ELSE IF a.cur = "=" THEN Yield(bump(s, a), Tok("PipeAssign"))
    ELSE Yield(a, Tok("Pipe"))

\* '&' without the third level: "&^=" is BitClear and then "=".
arm_and_two_levels(s, l) ==
    LET a == bump(s, l) IN
    IF a.cur = "&" THEN Yield(bump(s, a), Tok("AndAnd"))
    ELSE IF a.cur = "=" THEN Yield(bump(s, a), Tok("AndAssign"))
    ELSE IF a.cur = "^" THEN Yield(bump(s, a), Tok("BitClear"))
    ELSE Yield(a, Tok("And"))

\* '&'
arm_and(s, l) ==
    LET a == bump(s, l) IN
    IF a.cur = "&" THEN Yield(bump(s, a), Tok("AndAnd"))
    ELSE IF a.cur = "=" THEN Yield(bump(s, a), Tok("AndAssign"))
    ELSE IF a.cur = "^"
    THEN LET b == bump(s, a) IN
         IF b.cur = "=" THEN Yield(bump(s, b), Tok("BitClearAssign"))
         ELSE Yield(b, Tok("BitClear"))
    ELSE Yield(a, Tok("And"))

\* '!'
arm_not(s, l) ==
    LET a == bump(s, l) IN
    IF a.cur = "=" THEN Yield(bump(s, a), Tok("NotEqual"))
    ELSE Yield(a, Tok("Not"))

\* '^'
arm_caret(s, l) ==
    LET a == bump(s, l) IN
    IF a.cur = "=" THEN Yield(bump(s, a), Tok("CaretAssign"))
    ELSE Yield(a, Tok("Caret"))

\* '%'
arm_percent(s, l) ==
    LET a == bump(s, l) IN
    IF a.cur = "=" THEN Yield(bump(s, a), Tok("PercentAssign"))
    ELSE Yield(a, Tok("Percent"))

RECURSIVE scan_ident(_, _)
\* The loop of the identifier arm: bump while the character can continue one.
scan_ident(s, l) ==
    IF l.panic # NoPanic \/ l.cur = None THEN l
    ELSE IF can_continue_identifier(l.cur) THEN scan_ident(s, bump(s, l))
    ELSE l

\* The match on the identifier's text: one of the keywords, or an Ident.
keyword_or_ident(ident) ==
    IF ident = <<"b", "r", "e", "a", "k">> THEN Keyword("Break") ELSE
    IF ident = <<"c", "a", "s", "e">> THEN Keyword("Case") ELSE
    IF ident = <<"c", "h", "a", "n">> THEN Keyword("Chan") ELSE
    IF ident = <<"c", "o", "n", "s", "t">> THEN Keyword("Const") ELSE
    IF ident = <<"c", "o", "n", "t", "i", "n", "u", "e">> THEN Keyword("Continue") ELSE
    IF ident = <<"d", "e", "f", "a", "u", "l", "t">> THEN Keyword("Default") ELSE
    IF ident = <<"d", "e", "f", "e", "r">> THEN Keyword("Defer") ELSE
    IF ident = <<"e", "l", "s", "e">> THEN Keyword("Else") ELSE
    IF ident = <<"f", "a", "l", "l", "t", "h", "r", "o", "u", "g", "h">> THEN Keyword("Fallthrough") ELSE
    IF ident = <<"f", "o", "r">> THEN Keyword("For") ELSE
    IF ident = <<"f", "u", "n", "c">> THEN Keyword("Func") ELSE
    IF ident = <<"g", "o">> THEN Keyword("Go") ELSE
    IF ident = <<"g", "o", "t", "o">> THEN Keyword("Goto") ELSE
    IF ident = <<"i", "f">> THEN Keyword("If") ELSE
    IF ident = <<"i", "m", "p", "o", "r", "t">> THEN Keyword("Import") ELSE
    IF ident = <<"i", "n", "t", "e", "r", "f", "a", "c", "e">> THEN Keyword("Interface") ELSE
    IF ident = <<"m", "a", "p">> THEN Keyword("Map") ELSE
    IF ident = <<"p", "a", "c", "k", "a", "g", "e">> THEN Keyword("Package") ELSE
    IF ident = <<"r", "a", "n", "g", "e">> THEN Keyword("Range") ELSE
    IF ident = <<"r", "e", "t", "u", "r", "n">> THEN Keyword("Return") ELSE
    IF ident = <<"s", "e", "l", "e", "c", "t">> THEN Keyword("Select") ELSE
    IF ident = <<"s", "t", "r", "u", "c", "t">> THEN Keyword("Struct") ELSE
    IF ident = <<"s", "w", "i", "t", "c", "h">> THEN Keyword("Switch") ELSE
    IF ident = <<"t", "y", "p", "e">> THEN Keyword("Type") ELSE
    IF ident = <<"v", "a", "r">> THEN Keyword("Var") ELSE
    Ident(ident)

\* The identifier arm.
arm_ident(s, l) ==
    LET start == l.pos
        e == scan_ident(s, l) IN
    IF e.panic # NoPanic THEN Yield(e, Ident(<<>>))
    ELSE IF slice_panics(s, start, e.pos)
    THEN Yield(Panicked(e, BoundaryPanic), Ident(<<>>))
    ELSE Yield(e, keyword_or_ident(slice(s, start, e.pos)))

RECURSIVE scan_string(_, _)
\* The loop of the string arm: bump up to a '"' or the end of input.
scan_string(s, l) ==
    IF l.panic # NoPanic \/ l.cur = None THEN l
    ELSE IF l.cur # "\"" THEN scan_string(s, bump(s, l))
    ELSE l

\* The string arm: the opening quote, the body, then one bump for the
\* closing quote, whether or not there is one.
arm_string(s, l) ==
    LET a == bump(s, l)
        start == a.pos
        e == scan_string(s, a) IN
    IF e.panic # NoPanic THEN Yield(e, Str(<<>>))
    ELSE IF slice_panics(s, start, e.pos)
    THEN Yield(Panicked(e, BoundaryPanic), Str(<<>>))
    ELSE Yield(bump(s, e), Str(slice(s, start, e.pos)))

\* The fall-through arm: panic!("unexpected start of token").
arm_unexpected(s, l) == Yield(Panicked(l, UnexpectedPanic), Tok("Unexpected"))

\* The match of next on the first character after the trivia.
dispatch(s, l) ==
    LET c == l.cur IN
    CASE c = "(" -> arm_single(s, l, OpenDelim("Paren"))
      [] c = ")" -> arm_single(s, l, CloseDelim("Paren"))
      [] c = "{" -> arm_single(s, l, OpenDelim("Brace"))
      [] c = "}" -> arm_single(s, l, CloseDelim("Brace"))
      [] c = "[" -> arm_single(s, l, OpenDelim("Bracket"))
      [] c = "]" -> arm_single(s, l, CloseDelim("Bracket"))
      [] c = "," -> arm_single(s, l, Tok("Comma"))
      [] c = ";" -> arm_single(s, l, Tok("Semicolon"))
      [] c = "." -> arm_dot(s, l)
      [] c = ":" -> arm_colon(s, l)
      [] c = "+" -> arm_plus(s, l)
      [] c = "-" -> arm_minus(s, l)
      [] c = "*" -> arm_star(s, l)
      [] c = "/" -> arm_slash(s, l)
      [] c = "<" -> arm_less(s, l)
      [] c = ">" -> arm_greater(s, l)
      [] c = "|" -> arm_pipe(s, l)
      [] c = "&" -> arm_and(s, l)
      [] c = "!" -> arm_not(s, l)
      [] c = "^" -> arm_caret(s, l)
      [] c = "%" -> arm_percent(s, l)
      [] OTHER -> IF is_digit(c) THEN scan_number(s, l)
                  ELSE IF can_start_identifier(c) THEN arm_ident(s, l)
                  ELSE IF c = "\"" THEN arm_string(s, l)
                  ELSE arm_unexpected(s, l)

\* What a call of next yields.
NoToken == Tok("")
Some(l, tok, at) == [l |-> l, kind |-> "Some", tok |-> tok, tok_start |-> at]
\* The end-of-stream return with one more bump, as the arms that skip a
\* closing delimiter make it.
Eos_bumps(l) ==
    [l |-> [l EXCEPT !.pos = @ + 1], kind |-> "None", tok |-> NoToken,
     tok_start |-> l.pos]

Eos(l) == [l |-> l, kind |-> "None", tok |-> NoToken, tok_start |-> l.pos]
Abort(l, at) == [l |-> l, kind |-> "Panic", tok |-> NoToken, tok_start |-> at]

\* Lexer::next from cursor l: the cursor it leaves, Some(tok) or None or a
\* panic, and the offset at which the token's first character was read.
next(s, l) ==
    LET t == skip_trivia(s, l, FALSE) IN
    IF t.l.panic # NoPanic THEN Abort(t.l, t.l.pos)
    ELSE IF t.contains_newline THEN Some(t.l, Whitespace, t.l.pos)
    ELSE IF t.l.cur = None THEN Eos(t.l)
    ELSE LET y == dispatch(s, t.l) IN
         IF y.l.panic # NoPanic THEN Abort(y.l, t.l.pos)
         ELSE Some(y.l, y.tok, t.l.pos)

RECURSIVE collect(_, _, _)
\* Iterator::collect over the lexer: the tokens up to the first None, and
\* how the run ended ("None", or "Panic").
collect(s, l, acc) ==
    LET r == next(s, l) IN
    IF r.kind = "Some" THEN collect(s, r.l, Append(acc, r.tok))
    ELSE [tokens |-> acc, end |-> r.kind, l |-> r.l]

\* tokenize(s)
tokenize(s) == collect(s, new(s), <<>>)

\* ------------------------------------------------------- the state machine

VARIABLES
    src,            \* Lexer.src, as bytes
    pos,            \* Lexer.pos
    current_char,   \* Lexer.current_char
    result,         \* what the last call of next returned
    tokens,         \* the tokens collected so far
    spans           \* per collected token: where its scan began and ended

vars == <<src, pos, current_char, result, tokens, spans>>

\* The alphabets of the specifications.
Sigma == {"a", "1", " ", "\n", "/", "*", "\"", "_", "+", "="}

\* The source texts of the spec's scenarios.
Examples ==
    { <<"(", ")">>,
      <<"a", "/", "*", "\n", "*", "/", "b">>,
      <<"a", "\n", "\n", "\n", "b">>,
      <<"/", "/", " ", "c", "\n", "f", "o", "o">>,
      <<"f", "u", "n", "c", "1">>,
      <<"\"", "a", "\\", "\"", "b", "\"">> }

\* Lexer::new(s) for a source text s out of S.
InitOver(S) ==
    /\ src \in S
    /\ pos = new(src).pos
    /\ current_char = new(src).cur
    /\ result = [kind |-> "NotCalled", tok |-> NoToken, why |-> NoPanic,
                 from |-> 0, tok_start |-> 0]
    /\ tokens = <<>>
    /\ spans = <<>>

Init == InitOver({Encode(cs) : cs \in Texts(Sigma, MaxLen)} \cup Examples)

\* One call of Lexer::next, as tokenize's collect or any other caller makes
\* it.  A panic ends the process: nothing is called after it.
Lexer_next ==
    /\ result.kind # "Panic"
    /\ LET r == next(src, [pos |-> pos, cur |-> current_char, panic |-> NoPanic]) IN
        /\ pos' = r.l.pos
        /\ current_char' = r.l.cur
        /\ result' = [kind |-> r.kind, tok |-> r.tok, why |-> r.l.panic,
                      from |-> pos, tok_start |-> r.tok_start]
        /\ tokens' = IF r.kind = "Some" THEN Append(tokens, r.tok) ELSE tokens
        /\ spans' = IF r.kind = "Some"
                    THEN Append(spans, <<r.tok_start, r.l.pos>>)
                    ELSE spans
    /\ UNCHANGED src

Next == Lexer_next

Spec == Init /\ [][Next]_vars

\* The operator specification: texts of punctuation and operator characters.
OpSigma ==
    {".", ":", "+", "-", "*", "/", "<", ">", "|", "&", "!", "^", "%", "=",
     " ", "a", EAcute}

OpExamples == { <<".", ".", ".", ".">>, <<"<", "<", "=", "<", "<">> }

OpInit == InitOver({Encode(cs) : cs \in Texts(OpSigma, OpMaxLen)} \cup OpExamples)

OpSpec == OpInit /\ [][Next]_vars

\* The trivia specification: texts of whitespace, comments and identifiers.
TrivSigma == {"a", "\n", " ", "/", "*", "\f", EAcute}

TrivExamples ==
    { <<"a", "\n", "\n", "\n", "b">>,
      <<"a", "\n", " ", "\r", "\n", "\t", "\n", "b">>,
      <<"a", "/", "*", " ", "*", "/", "b">> }

TrivInit ==
    InitOver({Encode(cs) : cs \in Texts(TrivSigma, TrivMaxLen)} \cup TrivExamples)

TrivSpec == TrivInit /\ [][Next]_vars

\* The identifier specification: texts of letters and digits, one and two
\* bytes wide.
IdSigma == {"f", "u", "n", "c", "F", "1", " ", "+", EAcute, SuperTwo}

IdExamples ==
    { <<"f", "u", "n", "c", "1">>,
      <<"g", "o", "t", "o">>,
      <<"g", "o", " ", "g", "o", "1">>,
      <<"r", "e", "t", "u", "r", "n">>,
      <<"f", "a", "l", "l", "t", "h", "r", "o", "u", "g", "h">> }

IdInit == InitOver({Encode(cs) : cs \in Texts(IdSigma, IdMaxLen)} \cup IdExamples)

IdSpec == IdInit /\ [][Next]_vars

\* The round-trip specification: two texts with one space between them.
PairSigma == {"a", "1", "+", "=", "<", "\"", "/", "*", "."}

PairTexts == {Encode(cs) : cs \in Texts(PairSigma, PairMaxLen)} \ {<<>>}

PairInit == InitOver({t1 \o <<" ">> \o t2 : t1 \in PairTexts, t2 \in PairTexts})

PairSpec == PairInit /\ [][Next]_vars

\* The mixed-width specification: texts of identifiers, whitespace, comments
\* and strings, with a two-byte letter among the characters.
UniSigma == {"a", " ", "\n", "/", "*", "\"", "\\", EAcute}

UniExamples ==
    { <<"p", "a", "c", "k", "a", "g", "e", " ", "m", "a", "i", "n">>,
      <<" ", "p", "a", "c", "k", "a", "g", "e", " ", "m", "a", "i", "n">>,
      <<"\t", " ", "\t", "f", "o", "o">>,
      <<"a", "/", "*", " ", "n", "o", " ", "*", "/", "b">>,
      <<"/", "/", " ", "c", "\n", "f", "o", "o">>,
      <<"f", "o", "o", "/", "/", " ", "c">>,
      <<"\"", "a", "\\", "\"", "b", "\"">>,
      <<"a", "+", "\"", "b", " ", "c", "\"", "+", "a">> }

UniInit == InitOver({Encode(cs) : cs \in Texts(UniSigma, UniMaxLen)} \cup UniExamples)

UniSpec == UniInit /\ [][Next]_vars

\* The delimiter specification: texts of the single-character tokens.
DelimSigma == {"(", ")", "{", "}", "[", "]", ",", ";", "a", " ", "=", EAcute}

DelimInit == InitOver({Encode(cs) : cs \in Texts(DelimSigma, DelimMaxLen)})

DelimSpec == DelimInit /\ [][Next]_vars

\* The number specification: texts of digits, letters and wide characters.
NumSigma == {"0", "1", "9", "a", "x", " ", "+", EAcute, SuperTwo}

NumExamples ==
    { <<"1", "2", "3", "a", "b", "c">>,
      <<"0", "x", "1", "F">>,
      <<"0", "0", "1", "2", "3", "9">> }

NumInit == InitOver({Encode(cs) : cs \in Texts(NumSigma, NumMaxLen)} \cup NumExamples)

NumSpec == NumInit /\ [][Next]_vars

\* ------------------------------------------- what the specification says

\* The byte at 0-based offset i of s, None past the end.
At(s, i) == IF i >= 0 /\ i < Len(s) THEN s[i + 1] ELSE None

\* s has the two bytes a, b at offset i.
HasAt(s, i, a, b) == At(s, i) = a /\ At(s, i + 1) = b

\* The bytes of s at offsets i..j-1, clipped to s.
Between(s, i, j) ==
    {s[k + 1] : k \in {n \in i..(j - 1) : n >= 0 /\ n < Len(s)}}

RECURSIVE CloseFrom(_, _)
\* The offset of the first "*/" at or after offset i, or -1.
CloseFrom(s, i) ==
    IF i + 1 >= Len(s) THEN -1
    ELSE IF HasAt(s, i, "*", "/") THEN i
    ELSE CloseFrom(s, i + 1)

RECURSIVE LineEnd(_, _)
\* The offset of the first line break at or after offset i, or the end.
LineEnd(s, i) ==
    IF i >= Len(s) \/ At(s, i) = "\n" THEN i ELSE LineEnd(s, i + 1)

\* The four whitespace characters of the trivia skipper's description.
SpecWhitespace == {" ", "\t", "\r", "\n"}

RECURSIVE SpecTrivia(_, _, _)
\* The trivia skipper as the specification describes it, from offset i:
\* where the run ends, whether it crossed a line break, and whether it ran
\* into a block comment that is never closed.
SpecTrivia(s, i, nl) ==
    IF HasAt(s, i, "/", "/") THEN SpecTrivia(s, LineEnd(s, i), nl)
    ELSE IF HasAt(s, i, "/", "*")
    THEN LET c == CloseFrom(s, i + 2) IN
         IF c < 0
         THEN [end |-> Len(s), newline |-> nl \/ "\n" \in Between(s, i, Len(s)),
               unterminated |-> TRUE]
         ELSE SpecTrivia(s, c + 2, nl \/ "\n" \in Between(s, i, c))
    ELSE IF At(s, i) \in SpecWhitespace
    THEN SpecTrivia(s, i + 1, nl \/ At(s, i) = "\n")
    ELSE [end |-> i, newline |-> nl, unterminated |-> FALSE]

\* The characters that begin a token.
TokenStart(c) ==
    \/ c \in {"(", ")", "{", "}", "[", "]", ",", ";", ".", ":", "+", "-", "*",
              "/", "<", ">", "|", "&", "!", "^", "%", "\""}
    \/ is_digit(c)
    \/ is_alphabetic(c)

\* The last call of next went past the trivia and read a first character.
Dispatched ==
    /\ result.kind # "NotCalled"
    /\ result.tok # Whitespace
    /\ result.tok_start < Len(src)

\* The outcomes a call of next may have: a token, the end of the stream, or
\* one of the three errors.
Outcomes ==
    {"Some", "None", "UnexpectedChar", "UnterminatedComment", "UnterminatedString"}

\* ------------------------------------------------------------------ claims

\* C1: every call of next returns a token, the end of the stream or an error
\* value, and a first character that begins no token is returned as
\* UnexpectedChar: the call never aborts the process.
C1_ErrorsAreValues ==
    /\ result.kind # "NotCalled" => result.kind \in Outcomes
    /\ (Dispatched /\ ~TokenStart(At(src, result.tok_start)))
           => result.kind = "UnexpectedChar"

\* C2: a string literal that is still open at the end of input is the error
\* UnterminatedString, not a Str token.
C2_UnterminatedStringIsError ==
    ( /\ Dispatched
      /\ At(src, result.tok_start) = "\""
      /\ "\"" \notin Between(src, result.tok_start + 1, Len(src)) )
        => (result.kind = "UnterminatedString" /\ result.tok.tok # "Str")

\* C3: a block comment that is still open at the end of input is the error
\* UnterminatedComment, never the end of the stream or a Whitespace token.
C3_UnterminatedCommentIsError ==
    ( /\ result.kind # "NotCalled"
      /\ SpecTrivia(src, result.from, FALSE).unterminated )
        => result.kind = "UnterminatedComment"

\* The fixed set of punctuation and operator lexemes, each with its token.
Lexemes ==
    {
      [lex |-> <<".">>, tok |-> "Dot"],
      [lex |-> <<".", ".", ".">>, tok |-> "Ellipsis"],
      [lex |-> <<":">>, tok |-> "Colon"],
      [lex |-> <<":", "=">>, tok |-> "ColonAssign"],
      [lex |-> <<"+">>, tok |-> "Plus"],
      [lex |-> <<"+", "+">>, tok |-> "Increment"],
      [lex |-> <<"+", "=">>, tok |-> "PlusAssign"],
      [lex |-> <<"-">>, tok |-> "Minus"],
      [lex |-> <<"-", "-">>, tok |-> "Decrement"],
      [lex |-> <<"-", "=">>, tok |-> "MinusAssign"],
      [lex |-> <<"*">>, tok |-> "Star"],
      [lex |-> <<"*", "=">>, tok |-> "StarAssign"],
      [lex |-> <<"/">>, tok |-> "Slash"],
      [lex |-> <<"/", "=">>, tok |-> "SlashAssign"],
      [lex |-> <<"<">>, tok |-> "LessThan"],
      [lex |-> <<"<", "<">>, tok |-> "Lshift"],
      [lex |-> <<"<", "<", "=">>, tok |-> "LshiftAssign"],
      [lex |-> <<"<", "=">>, tok |-> "LessThanOrEqual"],
      [lex |-> <<"<", "-">>, tok |-> "ChanReceive"],
      [lex |-> <<">">>, tok |-> "GreaterThan"],
      [lex |-> <<">", ">">>, tok |-> "Rshift"],
      [lex |-> <<">", ">", "=">>, tok |-> "RshiftAssign"],
      [lex |-> <<">", "=">>, tok |-> "GreaterThanOrEqual"],
      [lex |-> <<"|">>, tok |-> "Pipe"],
      [lex |-> <<"|", "|">>, tok |-> "PipePipe"],
      [lex |-> <<"|", "=">>, tok |-> "PipeAssign"],
      [lex |-> <<"&">>, tok |-> "And"],
      [lex |-> <<"&", "&">>, tok |-> "AndAnd"],
      [lex |-> <<"&", "=">>, tok |-> "AndAssign"],
      [lex |-> <<"&", "^">>, tok |-> "BitClear"],
      [lex |-> <<"&", "^", "=">>, tok |-> "BitClearAssign"],
      [lex |-> <<"!">>, tok |-> "Not"],
      [lex |-> <<"!", "=">>, tok |-> "NotEqual"],
      [lex |-> <<"^">>, tok |-> "Caret"],
      [lex |-> <<"^", "=">>, tok |-> "CaretAssign"],
      [lex |-> <<"%">>, tok |-> "Percent"],
      [lex |-> <<"%", "=">>, tok |-> "PercentAssign"]
    }

OpChars == {x.lex[1] : x \in Lexemes}

\* lex is a prefix of s from offset i.
PrefixAt(s, i, lex) == \A k \in 1..Len(lex) : At(s, i + k - 1) = lex[k]

\* The longest lexeme that is a prefix of s from offset i.
LongestAt(s, i) ==
    CHOOSE x \in Lexemes :
        /\ PrefixAt(s, i, x.lex)
        /\ \A y \in Lexemes : PrefixAt(s, i, y.lex) => Len(y.lex) <= Len(x.lex)

\* C4: a step that starts at a punctuation or operator character returns
\* the token of the longest lexeme that is a prefix of the remaining input,
\* and advances the cursor by exactly that lexeme's length.
C4_LongestMatch ==
    (Dispatched /\ At(src, result.tok_start) \in OpChars)
        => LET x == LongestAt(src, result.tok_start) IN
           /\ result.kind = "Some"
           /\ result.tok = Tok(x.tok)
           /\ pos = result.tok_start + Len(x.lex)

\* C4 witness: "&^=" was scanned as the one token BitClearAssign when "&",
\* "&^" and "&=" were also to be had.
C4_Witness ==
    /\ result.tok = Tok("BitClearAssign")
    /\ pos = result.tok_start + 3
    /\ tokens = <<Tok("BitClearAssign")>>

\* The source text is an identifier, a run of whitespace with at least two
\* line breaks (a blank line or more), and an identifier: a, i and j cut it.
BlankLinesBetween(a, i, j) ==
    /\ a = SubSeq(src, 1, i)
    /\ i >= 1 /\ i < j /\ j < Len(src)
    /\ \A k \in 1..i : src[k] \in Letters
    /\ \A k \in (i + 1)..j : src[k] \in SpecWhitespace
    /\ Cardinality({k \in (i + 1)..j : src[k] = "\n"}) >= 2
    /\ \A k \in (j + 1)..Len(src) : src[k] \in Letters

\* C5: a Whitespace token is returned only when the trivia run just skipped
\* contained a line break, the run it stands for is maximal (the cursor is
\* left on no whitespace and no comment), no two Whitespace tokens are
\* adjacent, and identifiers separated by blank lines have exactly one
\* Whitespace between them.
C5_OneWhitespacePerRun ==
    /\ (result.kind = "Some" /\ result.tok = Whitespace)
          => /\ "\n" \in Between(src, result.from, pos)
             /\ At(src, pos) \notin SpecWhitespace
             /\ ~HasAt(src, pos, "/", "/")
             /\ ~HasAt(src, pos, "/", "*")
    /\ \A k \in 1..(Len(tokens) - 1) :
          ~(tokens[k] = Whitespace /\ tokens[k + 1] = Whitespace)
    /\ result.kind = "None"
          => \A i \in 1..Len(src), j \in 1..Len(src) :
                LET a == SubSeq(src, 1, i)
                    b == SubSeq(src, j + 1, Len(src)) IN
                BlankLinesBetween(a, i, j)
                    => /\ Len(tokens) = 3
                       /\ tokens[1].tok \in {"Ident", "Keyword"}
                       /\ tokens[1].tok = "Ident" => tokens[1].arg = a
                       /\ tokens[2] = Whitespace
                       /\ tokens[3].tok \in {"Ident", "Keyword"}
                       /\ tokens[3].tok = "Ident" => tokens[3].arg = b

\* C5 witness: three line breaks between two identifiers, and the stream
\* ended with the one Whitespace between them.
C5_Witness ==
    /\ src = <<"a", "\n", "\n", "\n", "b">>
    /\ result.kind = "None"
    /\ tokens = <<Ident(<<"a">>), Whitespace, Ident(<<"b">>)>>

\* C6: the newline flag is set by a line break anywhere in the skipped run,
\* a line break inside a block comment included: a call that skips a
\* well-formed run with a line break in it returns Whitespace.
C6_NewlineAnywhereInRun ==
    LET t == SpecTrivia(src, result.from, FALSE) IN
    (result.kind # "NotCalled" /\ ~t.unterminated /\ t.newline)
        => (result.kind = "Some" /\ result.tok = Whitespace)

\* C7: every call of next that returns a token has moved the cursor forward
\* by at least one character, so that no more tokens are returned than the
\* source has characters, and the run of calls that tokenize makes ends at
\* the end of the stream: the call that ends it returns None.
C7_ProgressToEndOfStream ==
    /\ result.kind = "Some" => pos >= result.from + 1
    /\ Len(tokens) <= Len(src)
    /\ result.kind \in {"None", "Panic"} => result.kind = "None"

\* The keywords, each with its text.
Keywords ==
    {
      [text |-> <<"b", "r", "e", "a", "k">>, kw |-> "Break"],
      [text |-> <<"c", "a", "s", "e">>, kw |-> "Case"],
      [text |-> <<"c", "h", "a", "n">>, kw |-> "Chan"],
      [text |-> <<"c", "o", "n", "s", "t">>, kw |-> "Const"],
      [text |-> <<"c", "o", "n", "t", "i", "n", "u", "e">>, kw |-> "Continue"],
      [text |-> <<"d", "e", "f", "a", "u", "l", "t">>, kw |-> "Default"],
      [text |-> <<"d", "e", "f", "e", "r">>, kw |-> "Defer"],
      [text |-> <<"e", "l", "s", "e">>, kw |-> "Else"],
      [text |-> <<"f", "a", "l", "l", "t", "h", "r", "o", "u", "g", "h">>, kw |-> "Fallthrough"],
      [text |-> <<"f", "o", "r">>, kw |-> "For"],
      [text |-> <<"f", "u", "n", "c">>, kw |-> "Func"],
      [text |-> <<"g", "o">>, kw |-> "Go"],
      [text |-> <<"g", "o", "t", "o">>, kw |-> "Goto"],
      [text |-> <<"i", "f">>, kw |-> "If"],
      [text |-> <<"i", "m", "p", "o", "r", "t">>, kw |-> "Import"],
      [text |-> <<"i", "n", "t", "e", "r", "f", "a", "c", "e">>, kw |-> "Interface"],
      [text |-> <<"m", "a", "p">>, kw |-> "Map"],
      [text |-> <<"p", "a", "c", "k", "a", "g", "e">>, kw |-> "Package"],
      [text |-> <<"r", "a", "n", "g", "e">>, kw |-> "Range"],
      [text |-> <<"r", "e", "t", "u", "r", "n">>, kw |-> "Return"],
      [text |-> <<"s", "e", "l", "e", "c", "t">>, kw |-> "Select"],
      [text |-> <<"s", "t", "r", "u", "c", "t">>, kw |-> "Struct"],
      [text |-> <<"s", "w", "i", "t", "c", "h">>, kw |-> "Switch"],
      [text |-> <<"t", "y", "p", "e">>, kw |-> "Type"],
      [text |-> <<"v", "a", "r">>, kw |-> "Var"]
    }

KeywordTexts == {k.text : k \in Keywords}

\* The character at offset i can continue an identifier.
AlnumAt(s, i) ==
    At(s, i) \in Letters \cup Digits \cup {EAcute, SuperTwo}

RECURSIVE RunEnd(_, _)
\* The end of the maximal run of alphabetic or numeric characters of s that
\* begins at offset i.
RunEnd(s, i) ==
    IF AlnumAt(s, i) THEN RunEnd(s, i + len_utf8(At(s, i))) ELSE i

\* C8: a step that starts at an alphabetic character consumes the maximal
\* run of alphabetic or numeric characters and returns the Keyword whose
\* text the run is, or else Ident with the run as its text; no Ident token
\* carries the text of a keyword.
C8_IdentifierOrKeyword ==
    /\ (Dispatched /\ is_alphabetic(At(src, result.tok_start)))
          => LET e == RunEnd(src, result.tok_start)
                 run == SubSeq(src, result.tok_start + 1, e) IN
             /\ result.kind = "Some"
             /\ pos = e
             /\ \A k \in Keywords :
                    (run = k.text) <=> (result.tok = Keyword(k.kw))
             /\ run \notin KeywordTexts => result.tok = Ident(run)
    /\ \A n \in 1..Len(tokens) :
          tokens[n].tok = "Ident" => tokens[n].arg \notin KeywordTexts

\* C9: the byte ranges of the successive tokens other than Whitespace are
\* not empty, lie inside the source text and do not overlap: each begins at
\* or after the end of the one before.
C9_TokenRanges ==
    LET real == {n \in 1..Len(tokens) : tokens[n] # Whitespace} IN
    \A n \in real :
        /\ 0 <= spans[n][1]
        /\ spans[n][1] < spans[n][2]
        /\ spans[n][2] <= Len(src)
        /\ \A m \in real : m < n => spans[m][2] <= spans[n][1]

\* The text t is one lexeme: on its own it is scanned whole as exactly one
\* token, which is not Whitespace.
OneLexeme(t) ==
    LET first == next(t, new(t))
        all == tokenize(t) IN
    /\ all.end = "None"
    /\ Len(all.tokens) = 1
    /\ all.tokens[1] # Whitespace
    /\ first.tok_start = 0
    /\ first.l.pos >= Len(t)

\* C10: two lexemes with one space between them tokenize to exactly the two
\* tokens that each is on its own.
C10_RoundTripThroughSpace ==
    \A i \in 2..(Len(src) - 1) :
        LET t1 == SubSeq(src, 1, i - 1)
            t2 == SubSeq(src, i + 1, Len(src)) IN
        (src[i] = " " /\ OneLexeme(t1) /\ OneLexeme(t2))
            => /\ result.kind # "Panic"
               /\ result.kind = "None"
                     => tokens = tokenize(t1).tokens \o tokenize(t2).tokens

\* The cursor of the state.
Cursor == [pos |-> pos, cur |-> current_char, panic |-> NoPanic]

\* The rest of the source text from the cursor on.
Suffix == SubSeq(src, pos + 1, Len(src))

\* C11: what next returns and where it leaves the cursor depend on the
\* source text from the current offset on and on nothing before it: a lexer
\* at offset p of s steps, and runs to its end, as a new lexer over s[p..].
C11_SuffixDeterminesTokens ==
    result.kind # "Panic"
        => LET here == next(src, Cursor)
               fresh == next(Suffix, new(Suffix))
               rest == collect(src, Cursor, <<>>)
               alone == tokenize(Suffix) IN
           /\ here.kind = fresh.kind
           /\ here.tok = fresh.tok
           /\ here.l.pos - pos = fresh.l.pos
           /\ here.l.cur = fresh.l.cur
           /\ rest.tokens = alone.tokens
           /\ rest.end = alone.end

\* C11 witness: a lexer that has returned a token stands inside the source
\* text, with a token made of text (an identifier or a string) and at least
\* one more token still to come.
C11_Witness ==
    /\ Len(tokens) >= 1
    /\ pos > 0 /\ pos < Len(src)
    /\ next(src, Cursor).kind = "Some"
    /\ next(src, Cursor).tok.tok \in {"Ident", "Str"}
    /\ Len(collect(src, Cursor, <<>>).tokens) >= 2

\* C12: advancing the cursor moves the offset by the encoded width of the
\* character consumed: the offset always sits on a character boundary, the
\* current character is the one at the offset, and no step cuts a
\* character in two.
C12_AdvanceByWidth ==
    /\ result.why # BoundaryPanic
    /\ pos <= Len(src) => is_char_boundary(src, pos)
    /\ pos < Len(src) => current_char = At(src, pos)

\* C13: spaces and tabs in front of a source text change nothing: the text
\* with a blank in front tokenizes, and ends, as the text without it.
C13_LeadingBlanksInvisible ==
    ( /\ Len(src) >= 1
      /\ src[1] \in {" ", "\t"}
      /\ result.kind \in {"None", "Panic"} )
        => LET bare == tokenize(Tail(src)) IN
           /\ tokens = bare.tokens
           /\ result.kind = bare.end

\* C13 witness: " package main" was tokenized to the end, to the keyword
\* and the identifier that "package main" gives.
C13_Witness ==
    /\ src = <<" ", "p", "a", "c", "k", "a", "g", "e", " ", "m", "a", "i", "n">>
    /\ result.kind = "None"
    /\ tokens = <<Keyword("Package"), Ident(<<"m", "a", "i", "n">>)>>
    /\ tokens = tokenize(Tail(src)).tokens

\* C14: a closed block comment with no line break in its body yields no
\* token: a call of next that begins on its "/*" returns what it returns on
\* the text with the comment replaced by one space, leaves the cursor at
\* the same place in the text after the comment, and the tokens of the whole
\* text are those of the text with the space.
C14_CommentAsSpace ==
    LET i == result.from
        c == CloseFrom(src, i + 2) IN
    ( /\ result.kind # "NotCalled"
      /\ HasAt(src, i, "/", "*")
      /\ c >= 0
      /\ "\n" \notin Between(src, i, c) )
        => LET spaced == SubSeq(src, 1, i) \o <<" ">>
                            \o SubSeq(src, c + 3, Len(src))
               shift == (c + 2) - (i + 1)
               other == next(spaced, [pos |-> i, cur |-> " ", panic |-> NoPanic]) IN
           /\ result.kind = other.kind
           /\ result.tok = other.tok
           /\ pos = other.l.pos + shift
           /\ current_char = other.l.cur
           /\ result.kind = "None" => tokens = tokenize(spaced).tokens

\* C15: a line comment is skipped up to, not including, the next line
\* break or the end of input: a call of next that begins on its "//"
\* returns Whitespace for the line break that ends the comment, with the
\* cursor past that line break, and returns None, with no token, when the
\* comment runs to the end of input.
C15_LineComment ==
    LET i == result.from
        e == LineEnd(src, i) IN
    (result.kind # "NotCalled" /\ HasAt(src, i, "/", "/"))
        => IF e < Len(src)
           THEN /\ result.kind = "Some"
                /\ result.tok = Whitespace
                /\ pos > e
           ELSE /\ result.kind = "None"
                /\ pos = Len(src)

\* The single-character tokens, each with its character.
Singles ==
    { [ch |-> "(", tok |-> OpenDelim("Paren")],
      [ch |-> ")", tok |-> CloseDelim("Paren")],
      [ch |-> "{", tok |-> OpenDelim("Brace")],
      [ch |-> "}", tok |-> CloseDelim("Brace")],
      [ch |-> "[", tok |-> OpenDelim("Bracket")],
      [ch |-> "]", tok |-> CloseDelim("Bracket")],
      [ch |-> ",", tok |-> Tok("Comma")],
      [ch |-> ";", tok |-> Tok("Semicolon")] }

\* C16: a step that starts at one of ( ) { } [ ] , ; returns the token of
\* that character, whatever follows it, and consumes exactly that one
\* character.
C16_SingleCharacterTokens ==
    \A x \in Singles :
        (Dispatched /\ At(src, result.tok_start) = x.ch)
            => /\ result.kind = "Some"
               /\ result.tok = x.tok
               /\ pos = result.tok_start + 1
               /\ spans[Len(spans)] = <<result.tok_start, result.tok_start + 1>>

\* C16 witness: "()" was tokenized to the end as OpenDelim(Paren),
\* CloseDelim(Paren).
C16_Witness ==
    /\ src = <<"(", ")">>
    /\ result.kind = "None"
    /\ tokens = <<OpenDelim("Paren"), CloseDelim("Paren")>>

RECURSIVE QuoteFrom(_, _)
\* The offset of the first double quote at or after offset i, or -1.
QuoteFrom(s, i) ==
    IF i >= Len(s) THEN -1
    ELSE IF At(s, i) = "\"" THEN i
    ELSE QuoteFrom(s, i + 1)

\* C17: a step that starts at a double quote with another one after it
\* returns Str with exactly the text strictly between the two, a backslash
\* being a character like any other, and leaves the cursor just after the
\* closing quote.
C17_TerminatedString ==
    LET o == result.tok_start
        q == QuoteFrom(src, o + 1) IN
    (Dispatched /\ At(src, o) = "\"" /\ q >= 0)
        => /\ result.kind = "Some"
           /\ result.tok = Str(SubSeq(src, o + 2, q))
           /\ "\"" \notin Between(src, o + 1, q)
           /\ pos = q + 1

RECURSIVE DigitsEnd(_, _)
\* The end of the maximal run of ASCII decimal digits of s from offset i.
DigitsEnd(s, i) ==
    IF At(s, i) \in {"0", "1", "2", "3", "4", "5", "6", "7", "8", "9"}
    THEN DigitsEnd(s, i + 1)
    ELSE i

\* C18: a step that starts at a decimal digit returns Integer with the
\* maximal run of decimal digits at the cursor as its text, leading zeros
\* kept, and leaves the cursor on the first character that is no digit, or
\* at the end of input.
C18_IntegerIsDigitRun ==
    LET o == result.tok_start
        e == DigitsEnd(src, o) IN
    (Dispatched /\ is_digit(At(src, o)))
        => /\ result.kind = "Some"
           /\ e > o
           /\ result.tok = Integer(SubSeq(src, o + 1, e))
           /\ pos = e
           /\ current_char = At(src, e)

\* C18 witness: "0x1F" was tokenized to the end as Integer(0), Ident(x1F).
C18_Witness ==
    /\ src = <<"0", "x", "1", "F">>
    /\ result.kind = "None"
    /\ tokens = <<Integer(<<"0">>), Ident(<<"x", "1", "F">>)>>

\* C19: the trivia skipper skips only space, tab, carriage return and line
\* break: a call whose cursor is at any other character that begins no
\* token and no comment (form feed, vertical tab) skips nothing, takes that
\* character to the dispatcher and reports it as unexpected.
C19_FourWhitespaceCharacters ==
    LET c == At(src, result.from) IN
    ( /\ result.kind # "NotCalled"
      /\ result.from < Len(src)
      /\ c \notin SpecWhitespace
      /\ ~TokenStart(c)
      /\ c # "/" )
        => /\ result.tok_start = result.from
           /\ result.kind \in {"UnexpectedChar", "Panic"}
           /\ result.kind = "Panic" => result.why = UnexpectedPanic

\* C20: after any sequence of calls on any input the byte offset of the
\* cursor is within the buffer.
C20_CursorWithinBuffer ==
    0 <= pos /\ pos <= Len(src)

\* C21: the end of the stream is sticky and has no side effect: once a call
\* of next has returned None, every later call returns None as well and
\* leaves pos and current_char (and the tokens seen so far) as they were.
C21_EndOfStreamIsSticky ==
    [][ result.kind = "None"
            => /\ result'.kind = "None"
               /\ pos' = pos
               /\ current_char' = current_char
               /\ tokens' = tokens ]_vars

\* C21 witness: on "a " a call was made at offset 2, which only the call
\* after the one that skipped the trailing space and returned None makes,
\* and it returned None with the cursor where it was.
C21_Witness ==
    /\ src = <<"a", " ">>
    /\ result.kind = "None"
    /\ result.from = 2
    /\ pos = 2
    /\ current_char = None
    /\ tokens = <<Ident(<<"a">>)>>

====
